---- MODULE Spec2Model ----
(***************************************************************************)
(* Routing, sticky session and retry orchestration of src/tui.py           *)
(* (GeminiTui.process_user_request, route_logic, the two worker classes,   *)
(* on_input_submitted and action_new_session).                             *)
(*                                                                         *)
(* Every process_user_request coroutine is one entry of `requests`; its    *)
(* `pc` is the await it is suspended at.  One action runs the code from    *)
(* one suspension point to the next, as the asyncio event loop does.       *)
(* Strings the code inspects are sequences of one-character strings.       *)
(***************************************************************************)
EXTENDS Integers, Sequences, FiniteSets, TLC

VARIABLES
    current_worker,      \* GeminiTui.current_worker: None or a worker object
    current_model_name,  \* GeminiTui.current_model_name: NoName or a model id
    workers,             \* the worker objects route_logic has constructed
    chats,               \* the chat sessions the workers have created
    requests,            \* the process_user_request coroutines, in submission order
    resets,              \* number of action_new_session calls so far
    routeCalls,          \* route_logic invocations since creation / the last reset
    user_text,           \* src/app.py: the text handle_llm_request was given
    routed_to            \* src/app.py: what route_logic returned for it

tuiVars == <<current_worker, current_model_name, workers, chats, requests,
             resets, routeCalls>>
appVars == <<user_text, routed_to>>
vars == <<tuiVars, appVars>>

----------------------------------------------------------------------------
(* Bounds of the model *)

MaxRequests == 3
MaxResets == 1
MaxPromptLen == 120
\* Prompts submitted in the runs whose fairness is stated.
MaxFairRequests == 2

----------------------------------------------------------------------------
(* Values *)

None == 0
NoName == "None"

heavy_model == "gemini-2.5-flash"
light_model == "gemini-flash-lite-latest"

Heavy == "HighReasoningImplementation"
Flash == "FlashImplementation"

\* A retry budget of one more attempt.
max_retries_Six == 5 + 1

max_retries == 5
base_delay == 1

----------------------------------------------------------------------------
(* str operations the code uses *)

Whitespace == {" ", "\n"}

UpperOf == ("a" :> "A") @@ ("b" :> "B") @@ ("e" :> "E") @@ ("g" :> "G") @@
           ("h" :> "H") @@ ("i" :> "I") @@ ("l" :> "L") @@ ("m" :> "M") @@
           ("n" :> "N") @@ ("o" :> "O") @@ ("r" :> "R") @@ ("t" :> "T") @@
           ("v" :> "V") @@ ("y" :> "Y")

\* str.upper()
Upper(s) == [k \in 1..Len(s) |-> IF s[k] \in DOMAIN UpperOf THEN UpperOf[s[k]] ELSE s[k]]

\* str.strip()
Strip(s) ==
    LET keep == {k \in 1..Len(s) : s[k] \notin Whitespace}
    IN  IF keep = {} THEN <<>>
        ELSE LET lo == CHOOSE k \in keep : \A j \in keep : k <= j
                 hi == CHOOSE k \in keep : \A j \in keep : k >= j
             IN  SubSeq(s, lo, hi)

\* sub in s
Contains(s, sub) ==
    \E k \in 0..(Len(s) - Len(sub)) : SubSeq(s, k + 1, k + Len(sub)) = sub

HEAVY == <<"H", "E", "A", "V", "Y">>
LIGHT == <<"L", "I", "G", "H", "T">>
S503 == <<"5", "0", "3">>

----------------------------------------------------------------------------
(* What the remote service can do *)

\* Messages of the exceptions a transport call can raise.
Err503 == <<"5", "0", "3", " ", "U", "N", "A", "V", "A", "I", "L", "A", "B", "L", "E">>
Err401 == <<"4", "0", "1", " ", "U", "N", "A", "U", "T", "H">>
Errors == {Err503, Err401}
NoError == <<>>

\* response.text of a transport call that returned, when the response has text.
Texts == {"OK", "DONE"}
\* Python's None: `result = None` (line 200), and response.text of a response
\* that has no text part.
NoResult == "None"

\* tui.py:52-53, 67-68  what process_task can return: response.text
ResponseTexts == Texts \cup {NoResult}

\* No failure line written.
NoKind == "None"

\* response.text of the picker.
Replies == { <<"H", "E", "A", "V", "Y">>,
             <<" ", "l", "i", "g", "h", "t", "\n">>,
             <<"L", "i", "g", "h", "t", ",", " ", "n", "o", "t", " ", "h", "e", "a", "v", "y">>,
             <<"h", "e", "a", "v", "y", " ", "o", "r", " ", "l", "i", "g", "h", "t">>,
             <<"m", "a", "y", "b", "e">> }

\* How the picker call of route_logic can end.
PickerFailures == {"create_error", "send_error", "text_none"}
NoPicker == [status |-> "none", text |-> <<>>]

----------------------------------------------------------------------------
(* Pure parts of the code *)

\* A fallback that picks the cheap tier.
FallbackDecision_Light == LIGHT

\* tui.py:87  the decision route_logic falls back to when the picker call raises
FallbackDecision == HEAVY

\* tui.py:71-87  the decision string route_logic derives from the picker call
Decision(picker) ==
    IF picker.status = "ok" THEN Upper(Strip(picker.text)) ELSE FallbackDecision

\* The two tiers tested in the other order.
WorkerFor_LightFirst(decision) ==
    IF Contains(decision, LIGHT)
    THEN [cls |-> Flash, _model_name |-> light_model, _chat_session |-> None]
    ELSE [cls |-> Heavy, _model_name |-> heavy_model, _chat_session |-> None]

\* tui.py:90-93  the worker route_logic constructs for a decision string
WorkerFor(decision) ==
    IF Contains(decision, HEAVY)
    THEN [cls |-> Heavy, _model_name |-> heavy_model, _chat_session |-> None]
    ELSE [cls |-> Flash, _model_name |-> light_model, _chat_session |-> None]

\* The heavy model id returned for either tier.
ModelNameFor_Heavy(decision) == heavy_model

\* tui.py:90-93  the model name route_logic returns next to the worker
ModelNameFor(decision) ==
    IF Contains(decision, HEAVY) THEN heavy_model ELSE light_model

\* Routing on every prompt, bound or not.
IsUnbound_Always(cw) == TRUE

\* tui.py:184  `if self.current_worker is None`
IsUnbound(cw) == cw = None

\* The retry test with the budget off by one.
ShouldRetry_OffByOne(error_str, attempt) ==
    Contains(error_str, S503) /\ attempt < max_retries

\* The retry test without the 503 check.
ShouldRetry_AnyError(error_str, attempt) == attempt < max_retries - 1

\* tui.py:213  `"503" in error_str and attempt < max_retries - 1`
ShouldRetry(error_str, attempt) ==
    Contains(error_str, S503) /\ attempt < max_retries - 1

\* A linear backoff.
WaitTime_Linear(attempt) == base_delay * (attempt + 1)

\* tui.py:215  wait_time = base_delay * (2 ** attempt)
WaitTime(attempt) == base_delay * (2 ^ attempt)

\* Suspension points of process_user_request: created and not yet scheduled,
\* awaiting picker.send_message, awaiting chat.send_message, awaiting asyncio.sleep.
Live == {"start", "routing", "dispatching", "sleeping"}

\* A worker that is not exclusive.
CancelGroup_None(reqs) == reqs

\* tui.py:179  @work(exclusive=True): starting a worker cancels the running ones of
\* its group; CancelledError is no Exception, so only the finally block runs.
CancelGroup(reqs) ==
    [k \in DOMAIN reqs |->
        IF reqs[k].pc \in Live THEN [reqs[k] EXCEPT !.pc = "cancelled"] ELSE reqs[k]]

\* A coroutine that has ended has no frame any more.  When the next prompt is
\* submitted, the record of an ended request keeps what later requests are
\* compared with (its prompt, how it ended, the worker and model it used, whether
\* it routed, the resets it had seen); the trace of its attempts is dropped.
Ended(req) ==
    [req EXCEPT !.picker = NoPicker, !.attempt = 0, !.attempts = 0, !.raised = <<>>,
                !.delays = <<>>, !.notes = <<>>, !.returned = NoResult,
                !.succeeded = FALSE, !.events = <<>>,
                !.result = NoResult, !.error = NoError, !.error_kind = NoKind]

\* tui.py:179  the worker manager on a new exclusive worker: the group is
\* cancelled, the ended workers are released
ReleaseGroup(reqs) == [k \in DOMAIN reqs |-> Ended(CancelGroup(reqs)[k])]

\* tui.py:180-200  the frame of a new process_user_request coroutine, with the
\* record of what it was given and what it wrote to the log
NewRequest(prompt) ==
    [ prompt     |-> prompt,
      pc         |-> "start",
      epoch      |-> resets,       \* resets seen when the coroutine first ran
      worker     |-> None,
      model_name |-> NoName,
      routed     |-> FALSE,        \* wrote "Routed to: ..." (line 192)
      picker     |-> NoPicker,     \* how its picker call ended
      attempt    |-> 0,            \* loop variable of line 206
      attempts   |-> 0,            \* calls of worker.process_task
      raised     |-> <<>>,         \* messages of the exceptions process_task raised
      delays     |-> <<>>,         \* arguments of asyncio.sleep, in order
      notes      |-> <<>>,         \* the retry messages written (line 220)
      returned   |-> NoResult,     \* `result` (lines 200, 208)
      succeeded  |-> FALSE,        \* a process_task call returned (line 209)
      events     |-> <<>>,         \* the terminal lines written (228, 232)
      result     |-> NoResult,     \* the text written at line 228
      error      |-> NoError,      \* the message written at line 232
      error_kind |-> NoKind ]      \* what the written line says the failure is

\* A retry message that always shows the base delay.
RetryMsg_BaseDelay(attempt, wait_time) == [wait_time |-> base_delay, dots |-> attempt + 1]

\* tui.py:218-220  f"Server overloaded. Retrying in {wait_time}s{dots}"
RetryMsg(attempt, wait_time) == [wait_time |-> wait_time, dots |-> attempt + 1]

\* tui.py:231-232  `except Exception as e: log_widget.write(f"Error: {e}")`: one
\* handler and one prefix for whatever was raised at line 226
ErrorKind(e) == "Error"

\* tui.py:210-226, 231-232  the except block of one attempt
OnError(req, e) ==
    LET r == [req EXCEPT !.raised = Append(@, e)]
    IN  IF ShouldRetry(e, r.attempt)
        THEN LET wait_time == WaitTime(r.attempt)
             IN  [r EXCEPT !.notes = Append(@, RetryMsg(r.attempt, wait_time)),
                           !.delays = Append(@, wait_time),
                           !.pc = "sleeping"]
        ELSE [r EXCEPT !.error = e, !.error_kind = ErrorKind(e),
                       !.events = Append(@, "failed"), !.pc = "failed"]

\* tui.py:228-229  after the loop: the result is written
WriteResult(req) ==
    [req EXCEPT !.result = req.returned, !.events = Append(@, "completed"),
                !.pc = "completed"]

\* A chat session created anew on every call.
NeedsChat_Always(session) == TRUE

\* tui.py:48, 62  `if self._chat_session is None`
NeedsChat(session) == session = None

\* One chat session shared by all workers.
NewChat_Shared(chs) == 1

\* tui.py:49-51, 63-65  chats.create returns a new chat session object
NewChat(chs) == Len(chs) + 1

\* tui.py:206-208, 47-52  the loop head and process_task up to its await (or its
\* raise, when creating the chat session fails), for request i whose frame is
\* req, with worker objects wks
RunAttempt(i, req, wks) ==
    IF req.attempt >= max_retries
    THEN /\ requests' = [requests EXCEPT ![i] = WriteResult(req)]
         /\ workers' = wks
         /\ chats' = chats
    ELSE LET r == [req EXCEPT !.attempts = @ + 1]
             w == req.worker
         IN  IF NeedsChat(wks[w]._chat_session)
             THEN \E ce \in {NoError} \cup Errors :
                    IF ce = NoError
                    THEN /\ chats' = Append(chats, {i})
                         /\ workers' = [wks EXCEPT ![w]._chat_session = NewChat(chats)]
                         /\ requests' = [requests EXCEPT ![i] = [r EXCEPT !.pc = "dispatching"]]
                    ELSE /\ chats' = chats
                         /\ workers' = wks
                         /\ requests' = [requests EXCEPT ![i] = OnError(r, ce)]
             ELSE /\ chats' = [chats EXCEPT ![wks[w]._chat_session] = @ \cup {i}]
                  /\ workers' = wks
                  /\ requests' = [requests EXCEPT ![i] = [r EXCEPT !.pc = "dispatching"]]

\* tui.py:89-93, 190-192  route_logic returns; the session is bound; then the
\* first attempt starts
BindAndRun(i, req, picker) ==
    LET worker == WorkerFor(Decision(picker))
        model_name == ModelNameFor(Decision(picker))
        w == Len(workers) + 1
        r == [req EXCEPT !.picker = picker, !.worker = w,
                         !.model_name = model_name, !.routed = TRUE]
    IN  /\ current_worker' = w
        /\ current_model_name' = model_name
        /\ RunAttempt(i, r, Append(workers, worker))

----------------------------------------------------------------------------
(* src/app.py: the heuristic router *)

app_heavy_model == "gemini-2-pro-preview"
app_light_model == "gemini-2.5-flash"

LengthThreshold == 100

NoRoute == [cls |-> "None", model |-> "None", model_name |-> "None"]

\* The threshold test with the boundary on the wrong side.
IsShort_Inclusive(user_input) == Len(user_input) <= LengthThreshold

\* app.py:50  `len(user_input) < 100`
IsShort(user_input) == Len(user_input) < LengthThreshold

\* app.py:49-52
app_route_logic(user_input) ==
    IF IsShort(user_input)
    THEN [cls |-> Flash, model |-> app_light_model, model_name |-> "Gemini Flash (Fast)"]
    ELSE [cls |-> Heavy, model |-> app_heavy_model, model_name |-> "Gemini Pro (Reasoning)"]

----------------------------------------------------------------------------
(* Actions *)

Init ==
    /\ current_worker = None
    /\ current_model_name = NoName
    /\ workers = <<>>
    /\ chats = <<>>
    /\ requests = <<>>
    /\ resets = 0
    /\ routeCalls = 0
    /\ user_text = <<>>
    /\ routed_to = NoRoute

Inputs == { <<" ">>, <<" ", "h", "i", "\n">> }

\* tui.py:238-250
on_input_submitted ==
    /\ Len(requests) < MaxRequests
    /\ \E value \in Inputs :
         LET stripped == Strip(value)
         IN  IF stripped = <<>>
             THEN UNCHANGED vars
             ELSE /\ requests' = Append(ReleaseGroup(requests), NewRequest(stripped))
                  /\ UNCHANGED <<current_worker, current_model_name, workers, chats,
                                 resets, routeCalls, appVars>>

\* tui.py:181-188 (and 194-195, 198-208 when bound): the coroutine runs to its
\* first await
Begin(i) ==
    /\ requests[i].pc = "start"
    /\ LET req == [requests[i] EXCEPT !.epoch = resets]
       IN  IF IsUnbound(current_worker)
           THEN /\ routeCalls' = routeCalls + 1
                /\ \E created \in BOOLEAN :
                     IF created
                     THEN /\ requests' = [requests EXCEPT ![i] = [req EXCEPT !.pc = "routing"]]
                          /\ UNCHANGED <<current_worker, current_model_name, workers, chats>>
                     ELSE BindAndRun(i, req, [status |-> "create_error", text |-> <<>>])
                /\ UNCHANGED resets
           ELSE /\ RunAttempt(i, [req EXCEPT !.worker = current_worker,
                                             !.model_name = current_model_name],
                              workers)
                /\ UNCHANGED <<current_worker, current_model_name, resets, routeCalls>>
    /\ UNCHANGED appVars

\* tui.py:83-93, 190-208  picker.send_message returns or raises
RouteReturn(i) ==
    /\ requests[i].pc = "routing"
    /\ \E picker \in [status : {"send_error", "text_none"}, text : {<<>>}]
                     \cup [status : {"ok"}, text : Replies] :
         BindAndRun(i, requests[i], picker)
    /\ UNCHANGED <<resets, routeCalls, appVars>>

\* tui.py:52-53, 208-232  chat.send_message returns or raises
AttemptReturn(i) ==
    /\ requests[i].pc = "dispatching"
    /\ \/ \E text \in ResponseTexts :
            requests' = [requests EXCEPT ![i] =
                            WriteResult([@ EXCEPT !.returned = text, !.succeeded = TRUE])]
       \/ \E e \in Errors :
            requests' = [requests EXCEPT ![i] = OnError(@, e)]
    /\ UNCHANGED <<current_worker, current_model_name, workers, chats, resets, routeCalls,
                   appVars>>

\* tui.py:223, 206-208  asyncio.sleep returns; the loop goes on
SleepReturn(i) ==
    /\ requests[i].pc = "sleeping"
    /\ RunAttempt(i, [requests[i] EXCEPT !.attempt = @ + 1], workers)
    /\ UNCHANGED <<current_worker, current_model_name, resets, routeCalls, appVars>>

\* tui.py:252-267
action_new_session ==
    /\ resets < MaxResets
    /\ current_worker' = None
    /\ current_model_name' = NoName
    /\ resets' = resets + 1
    /\ routeCalls' = 0
    /\ UNCHANGED <<workers, chats, requests, appVars>>

Next ==
    \/ on_input_submitted
    \/ action_new_session
    \/ \E i \in DOMAIN requests : Begin(i)
    \/ \E i \in DOMAIN requests : RouteReturn(i)
    \/ \E i \in DOMAIN requests : AttemptReturn(i)
    \/ \E i \in DOMAIN requests : SleepReturn(i)

Spec == Init /\ [][Next]_vars

\* The remote calls and the sleep return: every coroutine that can take a step
\* of its own eventually takes it (the asyncio event loop runs every ready task).
FairNext ==
    \/ (Len(requests) < MaxFairRequests /\ on_input_submitted)
    \/ action_new_session
    \/ \E i \in DOMAIN requests : Begin(i)
    \/ \E i \in DOMAIN requests : RouteReturn(i)
    \/ \E i \in DOMAIN requests : AttemptReturn(i)
    \/ \E i \in DOMAIN requests : SleepReturn(i)

FairSpec ==
    /\ Init /\ [][FairNext]_vars
    /\ WF_vars(\E i \in DOMAIN requests : Begin(i))
    /\ WF_vars(\E i \in DOMAIN requests : RouteReturn(i))
    /\ WF_vars(\E i \in DOMAIN requests : AttemptReturn(i))
    /\ WF_vars(\E i \in DOMAIN requests : SleepReturn(i))

\* Characters of the prompts given to src/app.py.
PromptChars == {"a", " "}

\* app.py:97-109  on_input_submitted passes event.value, unstripped, to
\* handle_llm_request, which routes it
handle_llm_request ==
    /\ \E n \in 0..MaxPromptLen, c \in PromptChars :
          /\ user_text' = [k \in 1..n |-> c]
          /\ routed_to' = app_route_logic(user_text')
    /\ UNCHANGED tuiVars

AppNext == handle_llm_request

AppSpec == Init /\ [][AppNext]_vars

----------------------------------------------------------------------------
(* Properties *)

\* The request whose trace of attempts is kept: the newest one.
Traced == {i \in DOMAIN requests : i = Len(requests)}

Is503(e) == Contains(e, S503)

InFlight == {"routing", "dispatching", "sleeping"}

\* C1: sticky routing.  In every step other than a reset that starts with the
\* session bound, the binding (worker and model name) is left as it is,
\* route_logic is not called, no request is or gets in ROUTING, and a request
\* that starts running takes the bound worker and model name without routing.
C1_StickyRouting ==
    [][ (current_worker # None /\ resets' = resets) =>
          /\ current_worker' = current_worker
          /\ current_model_name' = current_model_name
          /\ routeCalls' = routeCalls
          /\ \A i \in DOMAIN requests : requests[i].pc # "routing"
          /\ \A i \in DOMAIN requests' : requests'[i].pc # "routing"
          /\ \A i \in DOMAIN requests :
               (requests[i].pc = "start" /\ requests'[i].pc \in InFlight \cup {"completed", "failed"})
                 => /\ requests'[i].worker = current_worker
                    /\ requests'[i].model_name = current_model_name
                    /\ ~requests'[i].routed
      ]_vars

\* C1 witness: a second request completed on the worker an earlier request had
\* bound, without routing.
C1_Witness ==
    \E i, j \in DOMAIN requests :
        /\ i < j
        /\ requests[i].routed /\ requests[i].pc \in {"completed", "failed"}
        /\ ~requests[j].routed /\ requests[j].pc = "completed"
        /\ requests[j].worker = requests[i].worker
        /\ requests[j].model_name = requests[i].model_name
        /\ current_worker = requests[i].worker

\* C2: route_logic is invoked at most once between session creation or a reset
\* and the next reset.
C2_AtMostOneRouteCall == routeCalls <= 1

\* C3: after a reset the binding in force, if any, was made by a request that
\* started running after that reset; no request from before the reset
\* re-establishes it.
C3_ResetClearsBinding ==
    \A i \in DOMAIN requests :
        (current_worker # None /\ requests[i].routed /\ requests[i].worker = current_worker)
          => requests[i].epoch = resets

\* C4: at most one request of the session is pending or in ROUTING, DISPATCHING
\* or RETRYING.
C4_Exclusive == Cardinality({i \in DOMAIN requests : requests[i].pc \in Live}) <= 1

\* C4 witness: a prompt was submitted while another request was in flight, and
\* the new request is now the one in flight.
C4_Witness ==
    \E i, j \in DOMAIN requests :
        /\ i < j
        /\ requests[i].pc = "cancelled"
        /\ requests[j].pc \in InFlight

\* C5: a request has begun routing or dispatch only if every request submitted
\* before it has reached COMPLETED or FAILED.
C5_SubmissionOrder ==
    \A i, j \in DOMAIN requests :
        (i < j /\ requests[j].pc \in InFlight \cup {"completed", "failed"})
          => requests[i].pc \in {"completed", "failed"}

\* C6: a request that completed after k transient failures made k+1 attempts,
\* k < max_retries, wrote the text the last attempt returned, and waited
\* base_delay*2^0, ..., base_delay*2^(k-1) in that order; each wait lies between
\* the failed attempt and the next one.
C6_RetrySuccess ==
    \A i \in Traced :
        LET r == requests[i]
            k == Len(r.raised)
        IN  /\ r.pc = "completed" =>
                /\ \A j \in 1..k : Is503(r.raised[j])
                /\ k < max_retries
                /\ r.attempts = k + 1
                /\ r.succeeded
                /\ r.result = r.returned
                /\ r.delays = [j \in 1..k |-> base_delay * (2 ^ (j - 1))]
            /\ r.pc = "dispatching" => Len(r.delays) = r.attempts - 1 /\ k = r.attempts - 1
            /\ r.pc = "sleeping" => Len(r.delays) = r.attempts /\ k = r.attempts

\* C6 witness: four transient failures, then "OK" on the fifth attempt.
C6_Witness ==
    \E i \in Traced :
        /\ requests[i].pc = "completed"
        /\ requests[i].raised = <<Err503, Err503, Err503, Err503>>
        /\ requests[i].attempts = 5
        /\ requests[i].delays = <<1, 2, 4, 8>>
        /\ requests[i].result = "OK"

\* C7: no request makes more than max_retries attempts; a request all of whose
\* attempts failed with 503 fails after exactly max_retries attempts and
\* max_retries - 1 waits, with no wait after the last attempt.
C7_RetryExhaustion ==
    \A i \in Traced :
        LET r == requests[i]
            k == Len(r.raised)
            all503 == \A j \in 1..k : Is503(r.raised[j])
        IN  /\ r.attempts <= max_retries
            /\ (all503 /\ r.pc = "failed") =>
                  /\ r.attempts = max_retries
                  /\ k = max_retries
                  /\ Len(r.delays) = max_retries - 1
                  /\ r.error = r.raised[k]
            /\ (all503 /\ k = max_retries) => r.pc = "failed"

\* C7 witness: five 503 failures, four waits, the request failed.
C7_Witness ==
    \E i \in Traced :
        /\ requests[i].pc = "failed"
        /\ requests[i].raised = <<Err503, Err503, Err503, Err503, Err503>>
        /\ requests[i].attempts = max_retries
        /\ requests[i].delays = <<1, 2, 4, 8>>

\* C8: an exception without 503 is the last thing a request's attempts did: the
\* request is failed with that message written, and no attempt, wait or retry
\* message follows it.
C8_FatalAborts ==
    \A i \in Traced :
        LET r == requests[i]
        IN  \A j \in DOMAIN r.raised :
                ~Is503(r.raised[j]) =>
                    /\ j = Len(r.raised)
                    /\ r.pc = "failed"
                    /\ r.error = r.raised[j]
                    /\ r.attempts = j
                    /\ Len(r.delays) = j - 1
                    /\ Len(r.notes) = j - 1

\* C8 witness: a fatal failure on attempt 1: one attempt, no wait.
C8_Witness ==
    \E i \in Traced :
        /\ requests[i].pc = "failed"
        /\ requests[i].raised = <<Err401>>
        /\ requests[i].attempts = 1
        /\ requests[i].delays = <<>>
        /\ requests[i].error = Err401

\* C9: when the picker call failed (creating the chat, sending, or reading the
\* text), the request was routed to the heavy worker with the heavy model id and
\* went on to its first transport attempt; if it failed, a transport attempt
\* raised the error it reports.
C9_ClassificationFallback ==
    \A i \in Traced :
        LET r == requests[i]
        IN  r.picker.status \in PickerFailures =>
                /\ r.routed
                /\ workers[r.worker].cls = Heavy
                /\ workers[r.worker]._model_name = heavy_model
                /\ r.model_name = heavy_model
                /\ r.attempts >= 1
                /\ r.pc = "failed" =>
                     /\ r.raised # <<>>
                     /\ r.error = r.raised[Len(r.raised)]

\* C9 witness: the picker's send_message raised and the request is dispatching
\* on the heavy worker.
C9_Witness ==
    \E i \in Traced :
        /\ requests[i].picker.status = "send_error"
        /\ requests[i].pc = "dispatching"
        /\ workers[requests[i].worker].cls = Heavy

\* C10: a picker reply that holds neither HEAVY nor LIGHT (in any case) routes
\* to the heavy tier.
C10_AmbiguousIsHeavy ==
    \A i \in Traced :
        LET r == requests[i]
        IN  ( /\ r.picker.status = "ok"
              /\ ~Contains(Upper(r.picker.text), HEAVY)
              /\ ~Contains(Upper(r.picker.text), LIGHT) )
              => /\ workers[r.worker].cls = Heavy
                 /\ r.model_name = heavy_model

\* C11: a failed request does not reset routing.  The step in which a request
\* fails leaves the binding as it is (or, when that same step routed, bound to
\* the request's own worker) and leaves no request in flight; the prompt that
\* runs next on the still bound session takes the failed request's worker and
\* model name, without routing, and an existing chat session of that worker is
\* kept.
C11_FailureKeepsBinding ==
    [][ \A i \in DOMAIN requests :
          /\ (requests[i].pc \in Live /\ requests'[i].pc = "failed") =>
                /\ IF requests'[i].routed /\ ~requests[i].routed
                   THEN /\ current_worker' = requests'[i].worker
                        /\ current_model_name' = requests'[i].model_name
                   ELSE /\ current_worker' = current_worker
                        /\ current_model_name' = current_model_name
                /\ \A k \in DOMAIN requests' : requests'[k].pc \notin InFlight
          /\ ( /\ i > 1
               /\ requests[i - 1].pc = "failed"
               /\ current_worker # None
               /\ requests[i - 1].worker = current_worker
               /\ requests[i].pc = "start"
               /\ requests'[i].pc \in InFlight \cup {"completed", "failed"} ) =>
                /\ requests'[i].worker = requests[i - 1].worker
                /\ requests'[i].model_name = requests[i - 1].model_name
                /\ ~requests'[i].routed
                /\ routeCalls' = routeCalls
                /\ current_worker' = current_worker
                /\ workers[current_worker]._chat_session # None =>
                     /\ workers' = workers
                     /\ Len(chats') = Len(chats)
                     /\ requests'[i].pc = "dispatching" =>
                          i \in chats'[workers[current_worker]._chat_session]
      ]_vars

\* C11 witness: request i failed, the session is still bound to its worker, and
\* the next request is dispatching on that worker's chat session, which also
\* carried request i, without having routed.
C11_Witness ==
    \E i, j \in DOMAIN requests :
        /\ j = i + 1
        /\ requests[i].pc = "failed"
        /\ requests[j].pc = "dispatching"
        /\ ~requests[j].routed
        /\ requests[j].worker = requests[i].worker
        /\ current_worker = requests[i].worker
        /\ current_model_name = requests[i].model_name
        /\ workers[current_worker]._chat_session # None
        /\ {i, j} \subseteq chats[workers[current_worker]._chat_session]

\* The worker that owns chat session h.
Owners(h, wks) == {w \in DOMAIN wks : wks[w]._chat_session = h}

\* C12: reset during an in-flight request.  A request that is DISPATCHING or
\* RETRYING keeps its worker through every step, resets included; its own steps
\* never write the session binding and touch no chat session but its worker's.
\* A binding is only ever made by a request that was not yet dispatching, to a
\* worker object that did not exist before, whose chat session does not exist
\* yet, at a moment when no request is DISPATCHING or RETRYING.  Every chat session belongs to one worker and holds only prompts of
\* requests that run on that worker.
C12_ResetInFlight ==
    [][ /\ \A i \in DOMAIN requests :
              requests[i].pc \in {"dispatching", "sleeping"} =>
                 /\ requests'[i].worker = requests[i].worker
                 /\ requests'[i].model_name = requests[i].model_name
                 /\ (requests'[i] # requests[i] /\ requests'[i].pc # "cancelled") =>
                       /\ current_worker' = current_worker
                       /\ current_model_name' = current_model_name
                       /\ \A h \in DOMAIN chats :
                            chats'[h] # chats[h] => h = workers[requests[i].worker]._chat_session
                       /\ \A h \in DOMAIN chats' \ DOMAIN chats :
                            h = workers'[requests[i].worker]._chat_session
        /\ (current_worker' # current_worker /\ current_worker' # None) =>
              /\ current_worker' \notin DOMAIN workers
              /\ workers'[current_worker']._chat_session \notin DOMAIN chats
              /\ \A k \in DOMAIN requests : requests[k].pc \notin {"dispatching", "sleeping"}
              /\ \E i \in DOMAIN requests :
                    /\ requests[i].pc \in {"start", "routing"}
                    /\ requests'[i].routed
                    /\ requests'[i].worker = current_worker'
        /\ \A h \in DOMAIN chats' :
              /\ Cardinality(Owners(h, workers')) = 1
              /\ \A i \in chats'[h] : requests'[i].worker \in Owners(h, workers')
      ]_vars

\* C12 witness: the session was reset while a request that had started on the
\* bound worker was in flight; the request has since retried and is dispatching
\* on that worker's chat session while the session is unbound.
C12_Witness ==
    \E i \in Traced :
        /\ requests[i].epoch < resets
        /\ ~requests[i].routed
        /\ requests[i].pc = "dispatching"
        /\ requests[i].attempts >= 2
        /\ current_worker = None
        /\ requests[i].worker # None
        /\ i \in chats[workers[requests[i].worker]._chat_session]

\* C13: the heuristic router of src/app.py picks the fast worker exactly when
\* the text has fewer than 100 characters and the reasoning worker otherwise
\* (100 characters: reasoning), each with its own model; routing the same text
\* again gives the same answer.
C13_HeuristicThreshold ==
    [][ /\ routed_to'.cls = Flash <=> Len(user_text') < 100
        /\ routed_to'.cls = Heavy <=> Len(user_text') >= 100
        /\ routed_to'.cls = Flash =>
              routed_to'.model = app_light_model /\ routed_to'.model_name = "Gemini Flash (Fast)"
        /\ routed_to'.cls = Heavy =>
              routed_to'.model = app_heavy_model /\ routed_to'.model_name = "Gemini Pro (Reasoning)"
        /\ (routed_to # NoRoute /\ user_text' = user_text) => routed_to' = routed_to
      ]_vars

\* C13 witness: a text of exactly 100 characters was routed to the reasoning
\* worker.
C13_Witness ==
    /\ Len(user_text) = 100
    /\ routed_to.cls = Heavy
    /\ routed_to.model = app_heavy_model

\* C14: a request all of whose attempts failed with 503 reports a failure whose
\* kind differs from the kind a fatal error is reported with.
C14_DistinguishedExhaustion ==
    \A i \in Traced :
        LET r == requests[i]
        IN  ( /\ r.pc = "failed"
              /\ Len(r.raised) = max_retries
              /\ \A j \in DOMAIN r.raised : Is503(r.raised[j]) )
              => r.error_kind \notin {ErrorKind(e) : e \in {x \in Errors : ~Is503(x)}}

\* C15: every accepted prompt ends with a terminal event: a request that is no
\* longer pending or in flight has written its result or its error.
C15_NoPromptDropped ==
    \A i \in DOMAIN requests : requests[i].pc \in Live \cup {"completed", "failed"}

\* Position of the first occurrence of sub in s (0: none).
FirstIndex(s, sub) ==
    IF Contains(s, sub)
    THEN CHOOSE k \in 1..Len(s) :
            /\ k + Len(sub) - 1 <= Len(s)
            /\ SubSeq(s, k, k + Len(sub) - 1) = sub
            /\ \A j \in 1..(k - 1) : SubSeq(s, j, j + Len(sub) - 1) # sub
    ELSE 0

\* The picker reply of request r holds both tokens, in any case.
HoldsBoth(r) ==
    /\ r.picker.status = "ok"
    /\ Contains(Upper(r.picker.text), HEAVY)
    /\ Contains(Upper(r.picker.text), LIGHT)

\* C16 as stated: when the reply holds both tokens, the one that occurs first
\* decides: LIGHT before HEAVY routes to the light tier, HEAVY before LIGHT to
\* the heavy tier.
C16_FirstTokenWins ==
    \A i \in Traced :
        LET r == requests[i]
            t == Upper(r.picker.text)
        IN  HoldsBoth(r) =>
              /\ FirstIndex(t, LIGHT) < FirstIndex(t, HEAVY) =>
                    workers[r.worker].cls = Flash /\ r.model_name = light_model
              /\ FirstIndex(t, HEAVY) < FirstIndex(t, LIGHT) =>
                    workers[r.worker].cls = Heavy /\ r.model_name = heavy_model

\* C16 amended: when the reply holds both tokens the decision is HEAVY, in
\* whichever order they occur.
C16_BothIsHeavy ==
    \A i \in Traced :
        LET r == requests[i]
        IN  HoldsBoth(r) =>
              /\ workers[r.worker].cls = Heavy
              /\ workers[r.worker]._model_name = heavy_model
              /\ r.model_name = heavy_model

\* C16 witness: a reply with LIGHT before HEAVY was routed to the heavy worker.
C16_Witness ==
    \E i \in Traced :
        /\ HoldsBoth(requests[i])
        /\ FirstIndex(Upper(requests[i].picker.text), LIGHT)
             < FirstIndex(Upper(requests[i].picker.text), HEAVY)
        /\ workers[requests[i].worker].cls = Heavy

\* C17: the retry messages of a request are, one for one and in order, its
\* waits: message n carries the delay of wait n (and n dots) and is written
\* before that wait starts; there is one per failed attempt that was followed
\* by a retry, so none when the first attempt succeeds, none for a fatal
\* failure and none for the last, exhausted attempt.
C17_RetryNotifications ==
    \A i \in Traced :
        LET r == requests[i]
            k == Len(r.raised)
        IN  /\ Len(r.notes) = Len(r.delays)
            /\ \A n \in DOMAIN r.notes :
                  /\ r.notes[n].wait_time = r.delays[n]
                  /\ r.notes[n].dots = n
                  /\ Is503(r.raised[n])
            /\ r.pc = "sleeping" => Len(r.notes) = r.attempts
            /\ r.pc \in {"dispatching", "completed"} => Len(r.notes) = r.attempts - 1
            /\ r.pc = "failed" => Len(r.notes) = k - 1
            /\ (r.pc = "completed" /\ r.attempts = 1) => r.notes = <<>>

\* C17 witness: two transient failures and a fatal one: two retry messages, for
\* the waits of 1 and 2, and none for the fatal failure.
C17_Witness ==
    \E i \in Traced :
        /\ requests[i].pc = "failed"
        /\ requests[i].raised = <<Err503, Err503, Err401>>
        /\ requests[i].delays = <<1, 2>>
        /\ requests[i].notes = << [wait_time |-> 1, dots |-> 1], [wait_time |-> 2, dots |-> 2] >>

\* C18 as stated: the chat session of a bound worker is created on the first
\* transport attempt, at most once per binding: a request that has made an
\* attempt runs on a worker that has its chat session, and no two workers share
\* a session.
C18_CreatedOnFirstAttempt ==
    /\ \A i \in Traced :
          requests[i].attempts >= 1 => workers[requests[i].worker]._chat_session # None
    /\ \A h \in DOMAIN chats : Cardinality(Owners(h, workers)) = 1

\* C18 amended: the chat session of a worker is created lazily by the first
\* transport attempt whose chats.create call does not raise, at most once per
\* binding.  It is created only in the step that sends the first prompt through
\* it, for a worker that had none; once a worker has a session it keeps it, and
\* every later attempt and prompt on that worker is sent through it; sessions
\* only gain prompts; no two workers (so no two bindings, before and after a
\* reset) share a session.
C18_ContextLifetime ==
    [][ /\ \A w \in DOMAIN workers :
              workers[w]._chat_session # None =>
                 workers'[w]._chat_session = workers[w]._chat_session
        /\ \A h \in DOMAIN chats : chats[h] \subseteq chats'[h]
        /\ Len(chats') > Len(chats) =>
              /\ Len(chats') = Len(chats) + 1
              /\ \E i \in DOMAIN requests' :
                    LET w == requests'[i].worker
                    IN  /\ requests'[i].pc = "dispatching"
                        /\ workers'[w]._chat_session = Len(chats')
                        /\ chats'[Len(chats')] = {i}
                        /\ w \in DOMAIN workers => workers[w]._chat_session = None
        /\ \A h \in DOMAIN chats' :
              Cardinality(Owners(h, workers')) = 1 /\ chats'[h] # {}
        /\ \A w \in DOMAIN workers' : workers'[w]._chat_session \in {None} \cup DOMAIN chats'
        /\ \A i \in DOMAIN requests' :
              (i = Len(requests') /\ requests'[i].pc \in {"dispatching", "completed"}) =>
                 /\ workers'[requests'[i].worker]._chat_session # None
                 /\ i \in chats'[workers'[requests'[i].worker]._chat_session]
      ]_vars

\* C18 witness: two prompts went through the chat session of the first worker;
\* after a reset a third prompt bound a second worker, whose session is another
\* one and has carried that prompt alone through a retry.
C18_Witness ==
    \E i, j, k \in DOMAIN requests :
        /\ i < j /\ j < k
        /\ requests[i].worker = requests[j].worker
        /\ requests[i].worker # None
        /\ workers[requests[i].worker]._chat_session # None
        /\ {i, j} \subseteq chats[workers[requests[i].worker]._chat_session]
        /\ requests[k].routed
        /\ requests[k].epoch > requests[i].epoch
        /\ requests[k].worker # requests[i].worker
        /\ requests[k].attempts >= 2
        /\ requests[k].pc = "dispatching"
        /\ workers[requests[k].worker]._chat_session # workers[requests[i].worker]._chat_session
        /\ chats[workers[requests[k].worker]._chat_session] = {k}

Terminal == {"completed", "failed"}

\* C19: every request terminates.  A request that is pending or in ROUTING,
\* DISPATCHING or RETRYING eventually is COMPLETED or FAILED, unless a new
\* prompt interrupts (cancels) it; it never makes more than max_retries
\* attempts; and once it has ended nothing is in flight until the next prompt.
C19_Terminates ==
    /\ \A i \in 1..MaxFairRequests :
          (i \in DOMAIN requests /\ requests[i].pc \in Live)
             ~> (i \in DOMAIN requests /\ requests[i].pc \in Terminal \cup {"cancelled"})
    /\ [](\A i \in Traced :
             /\ requests[i].attempts <= 5
             /\ requests[i].pc \in Terminal =>
                   \A k \in DOMAIN requests : requests[k].pc \notin Live)

\* C19 witness: a request reached FAILED on its fifth attempt and the
\* orchestrator is idle.
C19_Witness ==
    \E i \in Traced :
        /\ requests[i].pc = "failed"
        /\ requests[i].attempts = 5
        /\ \A k \in DOMAIN requests : requests[k].pc \notin Live

\* The model id of a worker class.
TierModel(cls) == IF cls = Heavy THEN heavy_model ELSE light_model

\* C20: the binding is never half-updated: current_worker is None exactly when
\* current_model_name is None, and a bound session names the model id of the
\* tier of its worker, which is the model that worker calls; the same holds of
\* the worker and model name each request holds.
C20_BindingConsistent ==
    /\ current_worker = None <=> current_model_name = NoName
    /\ current_worker # None =>
          /\ current_worker \in DOMAIN workers
          /\ current_model_name = TierModel(workers[current_worker].cls)
          /\ current_model_name = workers[current_worker]._model_name
    /\ \A i \in DOMAIN requests :
          /\ requests[i].worker = None <=> requests[i].model_name = NoName
          /\ requests[i].worker # None =>
                requests[i].model_name = TierModel(workers[requests[i].worker].cls)

\* C20 witness: a request waits in its backoff sleep while the session is bound
\* to the light worker and the light model id.
C20_Witness ==
    \E i \in Traced :
        /\ requests[i].pc = "sleeping"
        /\ current_worker = requests[i].worker
        /\ current_worker # None
        /\ workers[current_worker].cls = Flash
        /\ current_model_name = light_model

\* The terminal lines request r has written.
Completed(r) == \E k \in DOMAIN r.events : r.events[k] = "completed"
Failed(r) == \E k \in DOMAIN r.events : r.events[k] = "failed"

\* A request that has written a terminal line makes no further step: no
\* process_task call, no wait, no second line.
NoStepAfterTerminal ==
    \A i \in DOMAIN requests :
        (requests[i].events # <<>> /\ Len(requests') = Len(requests))
          => requests'[i] = requests[i]

\* The completed line is written only after a process_task call returned, and
\* it shows what that call returned; a request writes at most one terminal
\* line, and has written one exactly when it is COMPLETED or FAILED.
CompletedAfterSuccess ==
    \A i \in Traced :
        LET r == requests[i]
        IN  /\ Completed(r) => r.succeeded /\ r.result = r.returned
            /\ ~(Completed(r) /\ Failed(r))
            /\ Len(r.events) <= 1
            /\ Completed(r) <=> r.pc = "completed"
            /\ Failed(r) <=> r.pc = "failed"
            /\ r.succeeded => Completed(r)

\* What holds of the completed line: everything C21 says but that its text is
\* never None.
C21_CompletedShowsReturn == []CompletedAfterSuccess /\ [][NoStepAfterTerminal]_vars

\* C21: a completed event is emitted only for a request one of whose transport
\* attempts succeeded, and it carries the text that attempt returned, never an
\* unset result (None); no request emits both a completed and a failed event;
\* and no transport attempt of a request happens after its terminal event.
C21_CompletedCarriesText ==
    /\ [](\A i \in Traced :
            LET r == requests[i]
            IN  /\ Completed(r) =>
                    /\ r.succeeded
                    /\ r.result = r.returned
                    /\ r.result # NoResult
                /\ ~(Completed(r) /\ Failed(r)))
    /\ [][\A i \in DOMAIN requests :
            (requests[i].events # <<>> /\ Len(requests') = Len(requests))
              => requests'[i].attempts = requests[i].attempts]_vars

====
